---- MODULE Spec2Model ----
(***************************************************************************)
(* A model of hundo's CREST classifier (src/hundo/crest_classifier.py):    *)
(* the Tree class (construction from a Newick tree and a .map file, the    *)
(* node index, paths, depth, lowest common ancestor, taxonomy rendering)   *)
(* and parse_blasthits / run_crest_classifier.                             *)
(*                                                                         *)
(* Python strings are sequences of one-character strings, so that the      *)
(* accession patterns and str.replace are computed and not assumed.  A     *)
(* Clade object is a natural number (its identity), None is -1.  Floats    *)
(* (cutoffs, identities, bit scores) are integers.  Every clade of the     *)
(* Newick tree carries a label (its raw id), as in the CREST reference     *)
(* trees whose .map file addresses the nodes by that id.                   *)
(***************************************************************************)
EXTENDS Integers, Sequences, FiniteSets, TLC

VARIABLES
    tre,         \* the Tree object (fields as in Tree.__init__)
    pc,          \* position of the program
    row,         \* the mapping row / add_node arguments handled last
    nrows,       \* mapping rows read so far
    nadds,       \* add_node calls made after construction
    call,        \* the last direct call of a Tree method and what it returned
    euk_filter,  \* parse_blasthits' euk_filter argument
    nread,       \* lines of the blast file read so far
    hsps,        \* parse_blasthits' hsps, in insertion order
    otus,        \* the OTU objects, by name
    idx,         \* position of the loop over hsps.items() / otus.items()
    lca_trace,   \* per query: the values the local lca_node took
    rendered,    \* per OTU: what get_taxonomy returned in run_crest_classifier
    exc          \* the exception that left the program, "none" if none

vars == <<tre, pc, row, nrows, nadds, call, euk_filter, nread, hsps, otus,
          idx, lca_trace, rendered, exc>>

----------------------------------------------------------------------------
(* Bounds of the model *)

MaxRows == 2
MaxAdds == 1
MaxHsps == 3
MaxNames == 3

----------------------------------------------------------------------------
(* Python values *)

None == -1

Range(s) == {s[i] : i \in 1..Len(s)}

\* dict.get(k): the value, None when the key is absent
Get(d, k) == IF k \in DOMAIN d THEN d[k] ELSE None

\* d[k] = v
Put(d, k, v) == (k :> v) @@ d

\* the dict d after d[k] = v for every <<k, v>> of the sequence ps, in its order
Update(d, ps) ==
    [k \in {ps[i][1] : i \in 1..Len(ps)} |->
        ps[CHOOSE i \in 1..Len(ps) :
              ps[i][1] = k /\ \A j \in (i + 1)..Len(ps) : ps[j][1] # k][2]] @@ d

\* the result of a method call: its value, the tree afterwards, the exception
Ret(v, t) == [ret |-> v, tre |-> t, exc |-> "none"]
Raise(e, t) == [ret |-> None, tre |-> t, exc |-> e]

\* r = <a call>, then the statements that use r: rest is given the value of r
Then(r, rest(_)) == CHOOSE out \in {rest(v) : v \in {r}} : TRUE

\* an argument that is a Clade, a str, or something else (None)
AsClade(n) == IF n = None THEN [kind |-> "other"] ELSE [kind |-> "clade", clade |-> n]
AsStr(s) == [kind |-> "str", str |-> s]

IsDigit(c) == c \in {"0", "1", "2", "3", "4", "5", "6", "7", "8", "9"}

\* re.compile(p).match(name) for a pattern p of \D and \d classes ending in \Z,
\* written as a sequence of "D" and "d"
ReMatch(p, name) ==
    /\ Len(name) = Len(p)
    /\ \A i \in 1..Len(p) : IF p[i] = "d" THEN IsDigit(name[i]) ELSE ~IsDigit(name[i])

accession_re ==
    << <<"D", "D", "d", "d", "d", "d", "d", "d">>,
       <<"D", "d", "d", "d", "d", "d">>,
       <<"D", "D", "D", "D", "d", "d", "d", "d", "d", "d", "d", "d", "d">>,
       <<"D", "D", "D", "D", "d", "d", "d", "d", "d", "d", "d", "d">> >>

IsAccession(name) ==
    \/ ReMatch(accession_re[1], name)
    \/ ReMatch(accession_re[2], name)
    \/ ReMatch(accession_re[3], name)
    \/ ReMatch(accession_re[4], name)

\* a renderer that leaves the spaces of a name in place
ReplaceSpaces_kept(s) == s

\* s.replace(" ", "_")
ReplaceSpaces(s) == [i \in 1..Len(s) |-> IF s[i] = " " THEN "_" ELSE s[i]]

----------------------------------------------------------------------------
(* Tree: class constants *)

ROOT == 0
META == 1
DOMAIN_ == 2
SUPERKINGDOM == 3
KINGDOM == 4
PHYLUM == 5
CLASS == 6
ORDER == 7
FAMILY == 8
GENUS == 9
SPECIES == 10
SUBSPECIES == 11

depths ==
    [d \in ROOT..SUBSPECIES |->
        CASE d = ROOT -> <<"r", "o", "o", "t">>
          [] d = META -> <<"m", "e", "t", "a">>
          [] d = DOMAIN_ -> <<"d", "o", "m", "a", "i", "n">>
          [] d = SUPERKINGDOM -> <<"s", "u", "p", "e", "r", "k", "i", "n", "g", "d", "o", "m">>
          [] d = KINGDOM -> <<"k", "i", "n", "g", "d", "o", "m">>
          [] d = PHYLUM -> <<"p", "h", "y", "l", "u", "m">>
          [] d = CLASS -> <<"c", "l", "a", "s", "s">>
          [] d = ORDER -> <<"o", "r", "d", "e", "r">>
          [] d = FAMILY -> <<"f", "a", "m", "i", "l", "y">>
          [] d = GENUS -> <<"g", "e", "n", "u", "s">>
          [] d = SPECIES -> <<"s", "p", "e", "c", "i", "e", "s">>
          [] OTHER -> <<"s", "t", "r", "a", "i", "n">>]

----------------------------------------------------------------------------
(* Names *)

NoHitsName == <<"N", "o", " ", "h", "i", "t", "s">>
Eukaryota == <<"E", "u", "k", "a", "r", "y", "o", "t", "a">>
Bacteria == <<"B", "a", "c", "t", "e", "r", "i", "a">>
Cellular == <<"C", "e", "l", "l", "u", "l", "a", "r", " ", "o", "r", "g">>
Viruses == <<"V", "i", "r", "u", "s", "e", "s">>
Proteobacteria == <<"P", "r", "o", "t", "e", "o">>
ClassC == <<"G", "a", "m", "m", "a">>
OrderO == <<"O", "r", "d", " ", "O">>
FamilyF == <<"F", "a", "m", " ", "F">>
GenusG == <<"G", "e", "n", "u", "s", " ", "G">>
SpeciesX == <<"s", "p", " ", "X">>
SpeciesY == <<"s", "p", " ", "Y">>
StrainS == <<"s", "p", " ", "X", " ", "s", "t", "r">>
Isolate == <<"i", "s", "o", " ", "1">>
Fungi == <<"F", "u", "n", "g", "i">>
RootName == <<"r", "o", "o", "t">>
Acc1 == <<"A", "B", "1", "2", "3", "4", "5", "6">>
Acc2 == <<"A", "1", "2", "3", "4", "5">>
Acc3 == <<"A", "B", "C", "D", "1", "2", "3", "4", "5", "6", "7", "8", "9">>
Acc4 == <<"A", "B", "C", "D", "1", "2", "3", "4", "5", "6", "7", "8">>
NotAcc == <<"A", "B", "1", "2", "3", "4", "5">>
Unknown == <<"Z", "Z", "9", "9", "9", "9", "9", "9">>

DigitChars == <<"0", "1", "2", "3", "4", "5", "6", "7", "8", "9">>

\* the label of clade n in the Newick file: its number in decimal
RawId(n) ==
    IF n < 10 THEN <<DigitChars[n + 1]>>
    ELSE <<DigitChars[(n \div 10) + 1], DigitChars[(n % 10) + 1]>>

----------------------------------------------------------------------------
(* Tree: the object and its methods.  A method takes the tree t and returns *)
(* Ret(value, tree afterwards) or Raise(exception, tree afterwards).        *)

\* a list, or None where a list was expected
List(l) == [isNone |-> FALSE, list |-> l]
NoList == [isNone |-> TRUE, list |-> <<>>]

\* the clades of the tree object
Clades(t) == DOMAIN t.name

\* the state of Tree.__init__ after the tree is read and the dicts are created
NewTree(clades) ==
    [root |-> 0,
     name |-> [n \in 0..(Len(clades) - 1) |-> RawId(n)],
     clades |-> [n \in 0..(Len(clades) - 1) |-> clades[n + 1]],
     node_names |-> <<>>,
     node_ids |-> <<>>,
     assignment_min |-> <<>>,
     parents |-> <<>>,
     no_hits |-> None]

verify_node(t, node) ==
    IF node.kind = "clade" THEN node.clade
    ELSE IF node.kind = "str" THEN Get(t.node_names, node.str)
    ELSE None

add_node(t, nodename, parent, assignment_min) ==
    IF nodename \in DOMAIN t.node_names THEN Ret(None, t)
    ELSE LET node == Cardinality(Clades(t))
             p == verify_node(t, parent)
         IN  IF p = None THEN Ret(None, t)
             ELSE Ret(node,
                      [t EXCEPT !.name = Put(@, node, nodename),
                                !.clades = Put([@ EXCEPT ![p] = Append(@, node)], node, <<>>),
                                !.node_names = Put(@, nodename, node),
                                !.assignment_min = Put(@, nodename, assignment_min),
                                !.parents = Put(@, node, p)])

get_immediate_children(t, node) ==
    Then(verify_node(t, node), LAMBDA n :
        IF n = None THEN Raise("AttributeError", t) ELSE Ret(List(t.clades[n]), t))

\* Bio.Phylo's tree.get_path(target): the clades from the root to the target,
\* the root excluded; None when the target is not in the tree
RECURSIVE PathFrom(_, _, _)
PathFrom(t, v, target) ==
    IF v = target THEN <<v>>
    ELSE LET below == {c \in Range(t.clades[v]) : PathFrom(t, c, target) # <<>>}
         IN  IF below = {} THEN <<>>
             ELSE <<v>> \o PathFrom(t, CHOOSE c \in below : TRUE, target)

PhyloGetPath(t, target) ==
    Then(PathFrom(t, t.root, target), LAMBDA p :
        IF p = <<>> THEN NoList ELSE List(Tail(p)))

get_parent(t, node) ==
    Then(verify_node(t, AsClade(node)), LAMBDA n :
        IF n = None THEN Ret(None, t)
        ELSE IF n \in DOMAIN t.parents THEN Ret(t.parents[n], t)
        ELSE Then(PhyloGetPath(t, n), LAMBDA p :
            IF ~p.isNone /\ Len(p.list) > 1
            THEN Then(p.list[Len(p.list) - 1], LAMBDA parent :
                     Ret(parent, [t EXCEPT !.parents = Put(@, n, parent)]))
            ELSE Ret(t.root, t)))

\* while parent and parent is not self.tree.root: ...; then the return
RECURSIVE get_path_loop(_, _, _)
get_path_loop(t, plist, parent) ==
    IF parent # None /\ parent # t.root
    THEN CHOOSE out \in {get_path_loop(r.tre, <<parent>> \o plist, r.ret) :
                            r \in {get_parent(t, parent)}} : TRUE
    ELSE IF parent = None THEN Ret(NoList, t)
    ELSE Ret(List(plist), t)

get_path(t, node) ==
    IF node = t.root THEN Ret(List(<<node>>), t)
    ELSE Then(get_parent(t, node), LAMBDA r : get_path_loop(r.tre, <<node>>, r.ret))

get_depth(t, node) ==
    Then(get_path(t, verify_node(t, AsClade(node))), LAMBDA r :
        IF r.ret.isNone THEN Raise("TypeError", r.tre)
        ELSE IF Len(r.ret.list) = 1 /\ r.ret.list[1] = t.root THEN Ret(0, r.tre)
        ELSE Ret(Len(r.ret.list), r.tre))

get_rank(t, node) ==
    Then(get_depth(t, node), LAMBDA r :
        IF r.exc # "none" THEN r
        ELSE Ret(depths[IF r.ret > SUBSPECIES THEN SUBSPECIES ELSE r.ret], r.tre))

\* get_all_children(node, children, parent): post-order; visits holds, in the
\* order they are made, the <<node, parent>> of "children.append(node)" and
\* "self.parents[node] = parent"
RECURSIVE get_all_children(_, _, _, _)
RECURSIVE get_all_children_loop(_, _, _, _)
get_all_children_loop(t, node, cs, visits) ==
    IF cs = <<>> THEN visits
    ELSE get_all_children_loop(t, node, Tail(cs), get_all_children(t, Head(cs), visits, node))

get_all_children(t, node, visits, parent) ==
    Append(get_all_children_loop(t, node, t.clades[node], visits), <<node, parent>>)

\* sorted(paths, key=len): stable, so paths of one length keep their order
RECURSIVE SortedByLen(_)
SortedByLen(paths) ==
    IF paths = <<>> THEN <<>>
    ELSE LET rest == SortedByLen(SubSeq(paths, 1, Len(paths) - 1))
             last == paths[Len(paths)]
             k == Cardinality({i \in 1..Len(rest) : Len(rest[i]) <= Len(last)})
         IN  SubSeq(rest, 1, k) \o <<last>> \o SubSeq(rest, k + 1, Len(rest))

\* [self.get_path(n) for n in nodes]: acc.paths are the paths so far
RECURSIVE get_paths(_, _, _)
get_paths(t, nodes, acc) ==
    IF nodes = <<>> THEN Ret(acc, t)
    ELSE Then(get_path(t, Head(nodes)), LAMBDA r :
             get_paths(r.tre, Tail(nodes), Append(acc, r.ret)))

\* the while loop testing the first node of lca_path instead of the last
RECURSIVE lca_while_first(_, _)
lca_while_first(lca_path, path) ==
    IF lca_path[1] \in Range(path) THEN [returned |-> FALSE, lca_path |-> lca_path]
    ELSE IF Len(lca_path) = 1 THEN [returned |-> TRUE, lca_path |-> lca_path]
    ELSE lca_while_first(SubSeq(lca_path, 1, Len(lca_path) - 1), path)

\* while not lca_path[-1] in path: ...; returned is TRUE when the loop returned
\* self.tree.root
RECURSIVE lca_while(_, _)
lca_while(lca_path, path) ==
    IF lca_path[Len(lca_path)] \in Range(path) THEN [returned |-> FALSE, lca_path |-> lca_path]
    ELSE IF Len(lca_path) = 1 THEN [returned |-> TRUE, lca_path |-> lca_path]
    ELSE lca_while(SubSeq(lca_path, 1, Len(lca_path) - 1), path)

\* for path in paths[1:]: ...; return lca_path[-1]
RECURSIVE lca_for(_, _, _, _)
lca_for(t, lca_path, paths, i) ==
    IF i > Len(paths) THEN lca_path[Len(lca_path)]
    ELSE Then(lca_while(lca_path, paths[i]), LAMBDA w :
             IF w.returned THEN t.root ELSE lca_for(t, w.lca_path, paths, i + 1))

\* the orders in which list(set(...)) may hold the elements of S
SetOrders(S) ==
    {o \in [1..Cardinality(S) -> S] : \A i, j \in 1..Cardinality(S) : o[i] = o[j] => i = j}

\* the nodes the names resolve to, None for a name the index lacks
NamedNodes(t, node_names) == {Get(t.node_names, node_names[i]) : i \in 1..Len(node_names)}

\* get_common_ancestor(node_names), nodes being list(set(...)) in the order the
\* set happens to have
get_common_ancestor(t, node_names, nodes) ==
    IF Len(nodes) = 1 THEN Ret(nodes[1], t)
    ELSE Then(get_paths(t, nodes, <<>>), LAMBDA r :
        IF \E i \in 1..Len(r.ret) : r.ret[i].isNone THEN Raise("TypeError", r.tre)
        ELSE IF r.ret = <<>> THEN Raise("IndexError", r.tre)
        ELSE Then(SortedByLen([i \in 1..Len(r.ret) |-> r.ret[i].list]), LAMBDA paths :
                 Ret(lca_for(r.tre, paths[1], paths, 2), r.tre)))

\* taxonomy[key] = value on an OrderedDict held as a sequence of <<key, value>>
SetItem(od, key, value) ==
    IF \E i \in 1..Len(od) : od[i][1] = key
    THEN [i \in 1..Len(od) |-> IF od[i][1] = key THEN <<key, value>> ELSE od[i]]
    ELSE Append(od, <<key, value>>)

Placeholder == <<"?">>

\* for i in "kpcofgs": taxonomy[i] = "?"
EmptyTaxonomy ==
    <<<<"k", Placeholder>>, <<"p", Placeholder>>, <<"c", Placeholder>>, <<"o", Placeholder>>,
      <<"f", Placeholder>>, <<"g", Placeholder>>, <<"s", Placeholder>>>>

\* a renderer that writes at every depth between META and SUBSPECIES
taxonomy_step_all(t, taxonomy, clade) ==
    Then(get_depth(t, clade), LAMBDA r :
        IF r.exc # "none" THEN r
        ELSE Then(r.ret, LAMBDA depth :
            IF depth > META /\ depth < SUBSPECIES
            THEN Then(IF depths[depth][1] = "d" THEN "k" ELSE depths[depth][1], LAMBDA abb :
                     Ret(SetItem(taxonomy, abb, ReplaceSpaces(t.name[clade])), r.tre))
            ELSE Ret(taxonomy, r.tre)))

\* one turn of "for clade in self.get_path(node)"
taxonomy_step(t, taxonomy, clade) ==
    Then(get_depth(t, clade), LAMBDA r :
        IF r.exc # "none" THEN r
        ELSE Then(r.ret, LAMBDA depth :
            IF depth > META /\ depth < SUBSPECIES
               /\ ~(depth = SUPERKINGDOM) /\ ~(depth = KINGDOM)
            THEN Then(IF depths[depth][1] = "d" THEN "k" ELSE depths[depth][1], LAMBDA abb :
                     Ret(SetItem(taxonomy, abb, ReplaceSpaces(t.name[clade])), r.tre))
            ELSE Ret(taxonomy, r.tre)))

\* for clade in path: the turns for the first half of the path, then those
\* for the second half
RECURSIVE taxonomy_for(_, _, _)
taxonomy_for(t, taxonomy, path) ==
    IF path = <<>> THEN Ret(taxonomy, t)
    ELSE IF Len(path) = 1 THEN taxonomy_step(t, taxonomy, path[1])
    ELSE Then(taxonomy_for(t, taxonomy, SubSeq(path, 1, Len(path) \div 2)), LAMBDA r :
             IF r.exc # "none" THEN r
             ELSE taxonomy_for(r.tre, r.ret, SubSeq(path, (Len(path) \div 2) + 1, Len(path))))

\* a renderer without the test "if node is not None"
get_taxonomy_unguarded(t, node) ==
    Then(get_path(t, node), LAMBDA r :
        IF r.ret.isNone THEN Raise("TypeError", r.tre)
        ELSE taxonomy_for(r.tre, EmptyTaxonomy, r.ret.list))

get_taxonomy(t, node) ==
    IF node = None THEN Ret(EmptyTaxonomy, t)
    ELSE Then(get_path(t, node), LAMBDA r :
             IF r.ret.isNone THEN Raise("TypeError", r.tre)
             ELSE taxonomy_for(r.tre, EmptyTaxonomy, r.ret.list))

----------------------------------------------------------------------------
(* Tree.__init__ *)

\* a traversal whose visits do not reach self.parents
init_index_unrecorded(t) ==
    Then(add_node(t, NoHitsName, AsClade(t.root), 0), LAMBDA a :
    Then([a.tre EXCEPT !.no_hits = a.ret], LAMBDA t1 :
    Then(get_all_children(t1, t1.root, <<>>, None), LAMBDA visits :
        [t1 EXCEPT !.node_ids = Update(@, [i \in 1..Len(visits) |->
                                              <<t1.name[visits[i][1]], visits[i][1]>>])])))

\* lines 48-50: the no-hits node, then the traversal: self.parents[node] = parent
\* for every visit, node_ids[child.name] = child for every child of the list
init_index(t) ==
    Then(add_node(t, NoHitsName, AsClade(t.root), 0), LAMBDA a :
    Then([a.tre EXCEPT !.no_hits = a.ret], LAMBDA t1 :
    Then(get_all_children(t1, t1.root, <<>>, None), LAMBDA visits :
        [t1 EXCEPT !.parents = Update(@, visits),
                   !.node_ids = Update(@, [i \in 1..Len(visits) |->
                                              <<t1.name[visits[i][1]], visits[i][1]>>])])))

\* a row of the .map file: toks[0], toks[1], float(toks[3])
Row(node_id, name, similarity_cutoff) ==
    [node_id |-> node_id, name |-> name, similarity_cutoff |-> similarity_cutoff]

\* a row handler that renames when the cutoff is >= 0 or the name is no accession
map_row_either(t, r) ==
    Then(Get(t.node_ids, r.node_id), LAMBDA n :
        IF n # None
        THEN Then([t EXCEPT !.node_names = Put(@, r.name, n)], LAMBDA t1 :
                 IF r.similarity_cutoff >= 0 \/ ~IsAccession(r.name)
                 THEN [t1 EXCEPT !.assignment_min = Put(@, r.name, r.similarity_cutoff),
                                 !.name[n] = r.name]
                 ELSE t1)
        ELSE t)

\* lines 61-79: one line of the .map file
map_row(t, r) ==
    Then(Get(t.node_ids, r.node_id), LAMBDA n :
        IF n # None
        THEN Then([t EXCEPT !.node_names = Put(@, r.name, n)], LAMBDA t1 :
                 IF r.similarity_cutoff >= 0 /\ ~IsAccession(r.name)
                 THEN [t1 EXCEPT !.assignment_min = Put(@, r.name, r.similarity_cutoff),
                                 !.name[n] = r.name]
                 ELSE t1)
        ELSE t)

\* for line in fh
RECURSIVE map_rows(_, _)
map_rows(t, mapfile) ==
    IF mapfile = <<>> THEN t
    ELSE Then(map_row(t, Head(mapfile)), LAMBDA t1 : map_rows(t1, Tail(mapfile)))

\* Tree(mapfile, trefile)
Tree(mapfile, clades) == map_rows(init_index(NewTree(clades)), mapfile)

----------------------------------------------------------------------------
(* BlastHits (hundo.blast), as parse_blasthits uses it: the hits of one      *)
(* query whose bit score is within top_fraction of the best, their names,    *)
(* and their identities with the weakest one last.                           *)

min_score == 155
top_fraction_pct == 98

BlastHits_add(hits, name, percent_id, bitscore) ==
    LET all == Append(hits, [name |-> name, percent_id |-> percent_id, bitscore |-> bitscore])
        best == CHOOSE b \in {all[i].bitscore : i \in 1..Len(all)} :
                    \A i \in 1..Len(all) : all[i].bitscore <= b
        Retained(h) == h.bitscore * 100 >= best * top_fraction_pct
    IN  SelectSeq(all, Retained)

BlastHits_names(hits) == [i \in 1..Len(hits) |-> hits[i].name]

\* the identities in descending order
RECURSIVE Descending(_)
Descending(ids) ==
    IF ids = <<>> THEN <<>>
    ELSE LET rest == Descending(Tail(ids))
             k == Cardinality({i \in 1..Len(rest) : rest[i] >= Head(ids)})
         IN  SubSeq(rest, 1, k) \o <<Head(ids)>> \o SubSeq(rest, k + 1, Len(rest))

BlastHits_percent_ids(hits) == Descending([i \in 1..Len(hits) |-> hits[i].percent_id])

----------------------------------------------------------------------------
(* parse_blasthits *)

\* a line of the blast file, the fields parse_blasthits reads
Hsp(qseqid, sseqid, pident, bitscore) ==
    [qseqid |-> qseqid, sseqid |-> sseqid, pident |-> pident, bitscore |-> bitscore]

\* lines 215-217: hs is hsps as the sequence of its items, in insertion order
read_hsp(hs, toks) ==
    IF toks.bitscore < min_score THEN hs
    ELSE IF \E i \in 1..Len(hs) : hs[i].otu_name = toks.qseqid
    THEN [i \in 1..Len(hs) |->
            IF hs[i].otu_name = toks.qseqid
            THEN [hs[i] EXCEPT !.hits = BlastHits_add(@, toks.sseqid, toks.pident, toks.bitscore)]
            ELSE hs[i]]
    ELSE Append(hs, [otu_name |-> toks.qseqid,
                     hits |-> BlastHits_add(<<>>, toks.sseqid, toks.pident, toks.bitscore)])

\* the while loop without the test "lca_node is not tre.root"
RECURSIVE climb_unguarded(_, _, _)
climb_unguarded(t, node, weakest) ==
    IF node = None THEN Raise("AttributeError", t)
    ELSE IF /\ t.name[node] \in DOMAIN t.assignment_min
            /\ weakest < t.assignment_min[t.name[node]]
    THEN CHOOSE out \in {climb_unguarded(r.tre, r.ret, weakest) : r \in {get_parent(t, node)}} : TRUE
    ELSE Ret(node, t)

\* lines 227-230: the while loop, weakest being hits.percent_ids[-1]
RECURSIVE climb(_, _, _)
climb(t, node, weakest) ==
    IF node = None THEN Raise("AttributeError", t)
    ELSE IF /\ t.name[node] \in DOMAIN t.assignment_min
            /\ weakest < t.assignment_min[t.name[node]]
            /\ node # t.root
    THEN CHOOSE out \in {climb(r.tre, r.ret, weakest) : r \in {get_parent(t, node)}} : TRUE
    ELSE Ret(node, t)

\* line 232: euk_filter and tre.get_path(lca_node)[1].name == "Eukaryota"
is_eukaryote(t, filter, node) ==
    IF ~filter THEN Ret(FALSE, t)
    ELSE Then(get_path(t, node), LAMBDA r :
             IF r.ret.isNone THEN Raise("TypeError", r.tre)
             ELSE IF Len(r.ret.list) < 2 THEN Raise("IndexError", r.tre)
             ELSE Ret(t.name[r.ret.list[2]] = Eukaryota, r.tre))

\* what one turn of the loop over hsps.items() did: lca is the node line 221
\* found, climbed the node the while loop left, classification what is stored
\* in the OTU (stored FALSE: nothing is)
Outcome(x, t, stored, lca, climbed, classification) ==
    [exc |-> x, tre |-> t, stored |-> stored, lca |-> lca, climbed |-> climbed,
     classification |-> classification]

\* lines 220-235: the body of the loop for one query; nodes is list(set(...))
\* inside get_common_ancestor
classify(t, hits, filter, nodes) ==
    Then(get_common_ancestor(t, BlastHits_names(hits), nodes), LAMBDA g :
        IF g.exc # "none" THEN Outcome(g.exc, g.tre, FALSE, None, None, None)
        ELSE IF g.ret = None THEN Outcome("none", g.tre, TRUE, None, None, g.tre.no_hits)
        ELSE Then(BlastHits_percent_ids(hits), LAMBDA percent_ids :
             Then(climb(g.tre, g.ret, percent_ids[Len(percent_ids)]), LAMBDA c :
                IF c.exc # "none" THEN Outcome(c.exc, c.tre, FALSE, g.ret, None, None)
                ELSE Then(is_eukaryote(c.tre, filter, c.ret), LAMBDA e :
                    IF e.exc # "none" THEN Outcome(e.exc, e.tre, FALSE, g.ret, c.ret, None)
                    ELSE Outcome("none", e.tre, TRUE, g.ret, c.ret,
                                 IF e.ret THEN e.tre.no_hits ELSE c.ret)))))

----------------------------------------------------------------------------
(* Inputs *)

\* the reference tree: root 0, its children 1 and 15, a lineage 1-2-4-...-12-17
\* that reaches depth 12, and branches at depths 1, 2 and 9
Clades0 ==
    << <<1, 15>>, <<2, 3>>, <<4>>, <<14>>, <<5>>, <<6>>, <<7>>, <<8>>, <<9>>, <<10>>,
       <<11, 13>>, <<12>>, <<17>>, <<>>, <<>>, <<16>>, <<>>, <<>> >>

\* a small bushy tree
Clades1 == << <<1, 2>>, <<3, 4>>, <<5>>, <<6>>, <<>>, <<>>, <<>> >>

NoNode == <<"9", "9">>

\* the domains at depth 2, as in the CREST reference
MapFileA ==
    << Row(RawId(0), RootName, 75), Row(RawId(1), Cellular, 0),
       Row(RawId(2), Bacteria, 50), Row(RawId(3), Eukaryota, 50),
       Row(RawId(6), Proteobacteria, 80), Row(RawId(7), ClassC, 85),
       Row(RawId(8), OrderO, 90), Row(RawId(9), FamilyF, 95),
       Row(RawId(10), GenusG, 97), Row(RawId(11), SpeciesX, 99),
       Row(RawId(12), StrainS, 100), Row(RawId(17), Isolate, 100),
       Row(RawId(13), SpeciesY, 99),
       Row(RawId(14), Fungi, 80), Row(RawId(15), Viruses, 90),
       Row(RawId(11), Acc1, -1), Row(RawId(13), Acc2, -1),
       Row(RawId(14), Acc3, -1), Row(RawId(16), Acc4, 97),
       Row(NoNode, NotAcc, 97) >>

\* Bacteria at superkingdom depth, Eukaryota a child of the root
MapFileB ==
    << Row(RawId(1), Cellular, 0), Row(RawId(4), Bacteria, 50),
       Row(RawId(15), Eukaryota, 50), Row(RawId(6), Proteobacteria, 80),
       Row(RawId(10), GenusG, 97), Row(RawId(11), SpeciesX, 99),
       Row(RawId(12), StrainS, 100), Row(RawId(17), Isolate, 100),
       Row(RawId(11), Acc1, -1), Row(RawId(13), Acc2, -1),
       Row(RawId(14), Acc3, -1), Row(RawId(16), Acc4, -1) >>

MapFile1 ==
    << Row(RawId(1), Bacteria, 50), Row(RawId(3), GenusG, 97), Row(RawId(5), SpeciesX, 99),
       Row(RawId(5), Acc1, -1), Row(RawId(4), Acc2, -1), Row(RawId(6), Acc3, -1),
       Row(RawId(2), Viruses, 90) >>

\* the trees the inputs construct
TreeA == Tree(MapFileA, Clades0)
TreeB == Tree(MapFileB, Clades0)
Tree1 == Tree(MapFile1, Clades1)

\* the OTUs read from the fasta file, in file order; otu3 has no alignment
OtuOrder == <<"otu1", "otu2", "otu3">>
OtuNames == Range(OtuOrder)

\* the lines a blast file is drawn from: hits of references of the tree at
\* identities below, between and above the thresholds, a hit of an unknown
\* reference, a hit outside the top fraction, a hit below min_score
BlastLines ==
    {Hsp("otu1", Acc1, p, 200) : p \in {70, 98, 100}}
    \cup {Hsp("otu1", n, 98, 200) : n \in {Acc2, Acc3, Viruses, Unknown}}
    \cup {Hsp("otu1", Viruses, 70, 200)}
    \cup {Hsp("otu2", n, 100, 200) : n \in {Acc4, SpeciesX}}
    \cup {Hsp("otu1", Acc2, 70, 160), Hsp("otu1", Acc1, 100, 100)}

\* the rows a .map file is drawn from
RowIds == {RawId(1), RawId(3), NoNode}
RowNames == {Bacteria, SpeciesX, Acc1, Acc2, Acc3, Acc4, NotAcc}
RowCutoffs == {-1, 90, 97}

\* the arguments add_node is called with after construction
AddNames == {Bacteria, GenusG}
AddParentClades == {0}
AddParentNames == {Bacteria, Unknown}

\* the names get_common_ancestor is called with directly
CallNames ==
    {RootName, Cellular, Eukaryota, Bacteria, GenusG, SpeciesX, Isolate, Viruses,
     Acc1, Acc2, Acc3, Acc4, NoHitsName}

RECURSIVE SeqsUpTo(_, _)
SeqsUpTo(S, n) ==
    IF n = 0 THEN {<<>>}
    ELSE LET shorter == SeqsUpTo(S, n - 1)
         IN  shorter \cup {Append(q, x) : q \in shorter, x \in S}

NoCall == [op |-> "none"]
NoTrace == [state |-> "pending", lca |-> None, climbed |-> None]

Idle ==
    /\ row = NoCall /\ nrows = 0 /\ nadds = 0 /\ call = NoCall
    /\ euk_filter = FALSE /\ nread = 0 /\ hsps = <<>>
    /\ otus = [q \in OtuNames |-> [classification |-> None]]
    /\ idx = 0
    /\ lca_trace = [q \in OtuNames |-> NoTrace]
    /\ rendered = [q \in OtuNames |-> <<>>]
    /\ exc = "none"

----------------------------------------------------------------------------
(* Construction of a Tree from a tree file and the rows of a .map file,     *)
(* then calls of add_node                                                   *)

InitBuild ==
    /\ tre = NewTree(Clades1)
    /\ pc = "new"
    /\ Idle

\* lines 48-50
Index ==
    /\ pc = "new"
    /\ tre' = init_index(tre)
    /\ pc' = "map"
    /\ UNCHANGED <<row, nrows, nadds, call, euk_filter, nread, hsps, otus, idx,
                   lca_trace, rendered, exc>>

\* lines 60-79, one line of the file
MapRow ==
    /\ pc = "map"
    /\ nrows < MaxRows
    /\ \E node_id \in RowIds \cup {NoHitsName}, name \in RowNames \cup {NoHitsName},
          similarity_cutoff \in RowCutoffs :
          /\ row' = Row(node_id, name, similarity_cutoff)
          /\ tre' = map_row(tre, row')
    /\ nrows' = nrows + 1
    /\ UNCHANGED <<pc, nadds, call, euk_filter, nread, hsps, otus, idx,
                   lca_trace, rendered, exc>>

\* the end of the .map file: __init__ returns
EndOfMap ==
    /\ pc = "map"
    /\ pc' = "built"
    /\ UNCHANGED <<tre, row, nrows, nadds, call, euk_filter, nread, hsps, otus, idx,
                   lca_trace, rendered, exc>>

\* add_node(nodename, parent) on the constructed tree
AddNode ==
    /\ pc = "built"
    /\ nadds < MaxAdds
    /\ \E nodename \in AddNames :
       \E parent \in {AsClade(n) : n \in AddParentClades} \cup {AsStr(n) : n \in AddParentNames} :
          \E r \in {add_node(tre, nodename, parent, 0)} :
              /\ tre' = r.tre
              /\ row' = [op |-> "add_node", nodename |-> nodename, parent |-> parent,
                         ret |-> r.ret]
    /\ nadds' = nadds + 1
    /\ UNCHANGED <<pc, nrows, call, euk_filter, nread, hsps, otus, idx,
                   lca_trace, rendered, exc>>

NextBuild == Index \/ MapRow \/ EndOfMap \/ AddNode

SpecBuild == InitBuild /\ [][NextBuild]_vars

----------------------------------------------------------------------------
(* Direct calls of get_common_ancestor and get_taxonomy on a constructed    *)
(* tree                                                                     *)

InitTree ==
    /\ tre \in {TreeA, TreeB, Tree1}
    /\ pc = "built"
    /\ Idle

CallCommonAncestor ==
    /\ pc = "built"
    /\ \E node_names \in SeqsUpTo(CallNames \cap DOMAIN tre.node_names, MaxNames) \ {<<>>} :
       \E nodes \in SetOrders(NamedNodes(tre, node_names)) :
          \E r \in {get_common_ancestor(tre, node_names, nodes)} :
              /\ call' = [op |-> "get_common_ancestor", node_names |-> node_names,
                          ret |-> r.ret, exc |-> r.exc]
              /\ tre' = r.tre
    /\ pc' = "returned"
    /\ UNCHANGED <<row, nrows, nadds, euk_filter, nread, hsps, otus, idx,
                   lca_trace, rendered, exc>>

CallTaxonomy ==
    /\ pc = "built"
    /\ \E node \in Clades(tre) \cup {None} :
          \E r \in {get_taxonomy(tre, node)} :
              /\ call' = [op |-> "get_taxonomy", node |-> node, ret |-> r.ret, exc |-> r.exc]
              /\ tre' = r.tre
    /\ pc' = "returned"
    /\ UNCHANGED <<row, nrows, nadds, euk_filter, nread, hsps, otus, idx,
                   lca_trace, rendered, exc>>

NextTree == CallCommonAncestor \/ CallTaxonomy

SpecTree == InitTree /\ [][NextTree]_vars

----------------------------------------------------------------------------
(* run_crest_classifier: parse_blasthits on a constructed tree, then the    *)
(* rendering of every OTU                                                   *)

Init ==
    /\ tre \in {TreeA, TreeB}
    /\ pc = "read"
    /\ row = NoCall /\ nrows = 0 /\ nadds = 0 /\ call = NoCall
    /\ euk_filter \in BOOLEAN
    /\ nread = 0 /\ hsps = <<>>
    /\ otus = [q \in OtuNames |-> [classification |-> None]]
    /\ idx = 0
    /\ lca_trace = [q \in OtuNames |-> NoTrace]
    /\ rendered = [q \in OtuNames |-> <<>>]
    /\ exc = "none"

\* lines 214-217, one line of the blast file
ReadHsp ==
    /\ pc = "read"
    /\ nread < MaxHsps
    /\ \E toks \in BlastLines : hsps' = read_hsp(hsps, toks)
    /\ nread' = nread + 1
    /\ UNCHANGED <<tre, pc, row, nrows, nadds, call, euk_filter, otus, idx,
                   lca_trace, rendered, exc>>

\* the end of the blast file: the loop over hsps.items() starts
EndOfFile ==
    /\ pc = "read"
    /\ pc' = "classify"
    /\ idx' = 1
    /\ UNCHANGED <<tre, row, nrows, nadds, call, euk_filter, nread, hsps, otus,
                   lca_trace, rendered, exc>>

\* lines 219-235, one query
Classify ==
    /\ pc = "classify"
    /\ idx <= Len(hsps)
    /\ LET otu_name == hsps[idx].otu_name
           hits == hsps[idx].hits
       IN  \E nodes \in SetOrders(NamedNodes(tre, BlastHits_names(hits))) :
              \E r \in {classify(tre, hits, euk_filter, nodes)} :
                  /\ tre' = r.tre
                  /\ exc' = r.exc
                  /\ pc' = IF r.exc = "none" THEN "classify" ELSE "raised"
                  /\ otus' = IF r.stored
                             THEN [otus EXCEPT ![otu_name].classification = r.classification]
                             ELSE otus
                  /\ lca_trace' = [lca_trace EXCEPT ![otu_name] =
                                      [state |-> IF r.exc # "none" THEN "raised"
                                                 ELSE IF r.lca = None THEN "no lca"
                                                 ELSE "classified",
                                       lca |-> r.lca, climbed |-> r.climbed]]
    /\ idx' = idx + 1
    /\ UNCHANGED <<row, nrows, nadds, call, euk_filter, nread, hsps, rendered>>

\* line 236: parse_blasthits returns, the loop over otus.items() starts
Return ==
    /\ pc = "classify"
    /\ idx > Len(hsps)
    /\ pc' = "render"
    /\ idx' = 1
    /\ UNCHANGED <<tre, row, nrows, nadds, call, euk_filter, nread, hsps, otus,
                   lca_trace, rendered, exc>>

\* lines 252-256, one OTU
Render ==
    /\ pc = "render"
    /\ idx <= Len(OtuOrder)
    /\ \E r \in {get_taxonomy(tre, otus[OtuOrder[idx]].classification)} :
           /\ tre' = r.tre
           /\ exc' = r.exc
           /\ rendered' = IF r.exc = "none" THEN [rendered EXCEPT ![OtuOrder[idx]] = r.ret]
                          ELSE rendered
           /\ pc' = IF r.exc # "none" THEN "raised"
                    ELSE IF idx = Len(OtuOrder) THEN "done" ELSE "render"
    /\ idx' = idx + 1
    /\ UNCHANGED <<row, nrows, nadds, call, euk_filter, nread, hsps, otus, lca_trace>>

Next == ReadHsp \/ EndOfFile \/ Classify \/ Return \/ Render

Spec == Init /\ [][Next]_vars

----------------------------------------------------------------------------
(* The topology of a tree, read from the child lists alone: the vocabulary  *)
(* of the properties below.                                                 *)

Children(t, n) == Range(t.clades[n])

\* n and every node below it
RECURSIVE Descendants(_, _)
Descendants(t, n) == {n} \cup UNION {Descendants(t, c) : c \in Children(t, n)}

\* the ancestors of n, n included
Ancestors(t, n) == {a \in DOMAIN t.clades : n \in Descendants(t, a)}

\* the number of edges between the root and n
Depth(t, n) == Cardinality(Ancestors(t, n)) - 1

ParentOf(t, n) ==
    IF n = t.root THEN None ELSE CHOOSE p \in DOMAIN t.clades : n \in Children(t, p)

\* the deepest node that is an ancestor-or-self of every node of S
DeepestCommon(t, S) ==
    LET common == {a \in DOMAIN t.clades : S \subseteq Descendants(t, a)}
    IN  CHOOSE a \in common : \A b \in common : a \in Descendants(t, b)

\* out is name with every space replaced by an underscore
Underscored(name, out) ==
    /\ Len(out) = Len(name)
    /\ \A i \in 1..Len(name) : (name[i] = " " => out[i] = "_") /\ (name[i] # " " => out[i] = name[i])

SlotKeys == <<"k", "p", "c", "o", "f", "g", "s">>
SlotDepth == [k |-> 2, p |-> 5, c |-> 6, o |-> 7, f |-> 8, g |-> 9, s |-> 10]

\* the record rd has the seven slots, each holding the name of the ancestor of
\* node at the slot's depth, or the placeholder when there is none
RendersLineage(t, node, rd) ==
    /\ Len(rd) = Len(SlotKeys)
    /\ \A i \in 1..Len(SlotKeys) :
          /\ rd[i][1] = SlotKeys[i]
          /\ LET at == IF node = None THEN {}
                       ELSE {a \in Ancestors(t, node) : Depth(t, a) = SlotDepth[SlotKeys[i]]}
             IN  IF at = {} THEN rd[i][2] = <<"?">>
                 ELSE \A a \in at : Underscored(t.name[a], rd[i][2])

AllPlaceholders(rd) ==
    /\ Len(rd) = Len(SlotKeys)
    /\ \A i \in 1..Len(SlotKeys) : rd[i] = <<SlotKeys[i], <<"?">>>>

\* the retained hits of query q, <<>> when the blast file retained none
HitsOf(q) ==
    IF \E i \in 1..Len(hsps) : hsps[i].otu_name = q
    THEN hsps[CHOOSE i \in 1..Len(hsps) : hsps[i].otu_name = q].hits
    ELSE <<>>

Retained(q) == \E i \in 1..Len(hsps) : hsps[i].otu_name = q

\* hits.percent_ids[-1]
Weakest(q) == BlastHits_percent_ids(HitsOf(q))[Len(HitsOf(q))]

\* the loop over hsps.items() has taken query q
Processed(q) == lca_trace[q].state # "pending"

\* parse_blasthits has returned and the loop over the OTUs has taken OTU i
RenderAttempted(i) ==
    /\ idx > i
    /\ \/ pc \in {"render", "done"}
       \/ pc = "raised" /\ \A q \in OtuNames : lca_trace[q].state # "raised"

\* the climb stops at n: n is the root, has no threshold, or its threshold is met
Accepts(t, n, m) ==
    \/ n = t.root
    \/ t.name[n] \notin DOMAIN t.assignment_min
    \/ m >= t.assignment_min[t.name[n]]

----------------------------------------------------------------------------
(* Tree.get_common_ancestor and Tree.get_taxonomy (SpecTree) *)

\* C1: for names that are all in the name index, get_common_ancestor returns
\* without raising the deepest node that is an ancestor-or-self of every named
\* node, whatever the order and the duplication of the names and whatever
\* order the set of nodes takes; one distinct node gives that node; two nodes
\* on disjoint branches never give a descendant of either.
C1_LowestCommonAncestor ==
    call.op = "get_common_ancestor" =>
        LET S == NamedNodes(tre, call.node_names)
        IN  /\ call.exc = "none"
            /\ call.ret = DeepestCommon(tre, S)
            /\ (Cardinality(S) = 1 => call.ret \in S)
            /\ \A a, b \in S :
                  (a \notin Descendants(tre, b) /\ b \notin Descendants(tre, a))
                      => call.ret \notin Descendants(tre, a) \cup Descendants(tre, b)

\* three names, one of them twice, of two nodes on disjoint branches whose
\* lowest common ancestor is below the root
C1_Witness ==
    /\ call.op = "get_common_ancestor"
    /\ Len(call.node_names) = 3
    /\ Cardinality(NamedNodes(tre, call.node_names)) = 2
    /\ call.ret \notin NamedNodes(tre, call.node_names)
    /\ call.ret # tre.root

\* C6: get_taxonomy returns for every node, for None and for the no-hits node
\* the seven slots k, p, c, o, f, g, s in this order; a slot holds the name,
\* spaces replaced by underscores, of the ancestor-or-self at depth 2, 5, 6, 7,
\* 8, 9, 10 respectively and the placeholder when the lineage has no node at
\* that depth, so depths 0, 1, 3, 4 and 11 or more write nothing; None and the
\* no-hits node render as seven placeholders.
C6_SevenSlots ==
    call.op = "get_taxonomy" =>
        /\ call.exc = "none"
        /\ RendersLineage(tre, call.node, call.ret)
        /\ (call.node \in {None, tre.no_hits} => AllPlaceholders(call.ret))

\* a node at depth 11 or more below a lineage that fills all seven slots
C6_Witness ==
    /\ call.op = "get_taxonomy"
    /\ call.node # None
    /\ Depth(tre, call.node) >= 11
    /\ call.ret[1] = <<"k", Bacteria>>
    /\ call.ret[7] = <<"s", <<"s", "p", "_", "X">>>>

----------------------------------------------------------------------------
(* parse_blasthits and the rendering (Spec) *)

\* C2: for every query whose names gave a lowest common ancestor L, the loop
\* ends, does not raise, and leaves the nearest ancestor-or-self N of L that
\* is the root, or has no threshold, or has a threshold <= the weakest
\* retained identity: every node strictly between L (included) and N was
\* refused.
C2_Climb ==
    \A q \in OtuNames :
        (Processed(q) /\ lca_trace[q].lca # None) =>
            LET L == lca_trace[q].lca
                N == lca_trace[q].climbed
            IN  /\ N \in Ancestors(tre, L)
                /\ Accepts(tre, N, Weakest(q))
                /\ \A x \in Ancestors(tre, L) :
                      (x # N /\ x \in Descendants(tre, N)) => ~Accepts(tre, x, Weakest(q))

\* a climb that reached the root although the root's threshold is above the
\* weakest identity
C2_Witness ==
    \E q \in OtuNames :
        /\ lca_trace[q].state = "classified"
        /\ lca_trace[q].lca # tre.root
        /\ lca_trace[q].climbed = tre.root
        /\ tre.name[tre.root] \in DOMAIN tre.assignment_min
        /\ Weakest(q) < tre.assignment_min[tre.name[tre.root]]

\* C3 (as stated): a query with a retained name that the name index lacks never
\* makes parse_blasthits raise and ends unclassified or at the no-hits node.
C3_NoAbort ==
    \A q \in OtuNames :
        (/\ Processed(q)
         /\ \E i \in 1..Len(HitsOf(q)) : HitsOf(q)[i].name \notin DOMAIN tre.node_names)
            => /\ lca_trace[q].state # "raised"
               /\ otus[q].classification \in {None, tre.no_hits}

C5_EukaryoteFilter ==
    \A q \in OtuNames :
        (Processed(q) /\ lca_trace[q].climbed # None) =>
            LET N == lca_trace[q].climbed
                top == {a \in Ancestors(tre, N) : Depth(tre, a) = 1}
            IN  /\ lca_trace[q].state = "classified"
                /\ otus[q].classification =
                      IF euk_filter /\ \E a \in top : tre.name[a] = Eukaryota
                      THEN tre.no_hits ELSE N

\* the query's retained hits all name speciesX, whose node is x, and the
\* weakest identity is at or above every threshold on the lineage of x
OnlySpeciesX(q, x) ==
    /\ Retained(q)
    /\ \A i \in 1..Len(HitsOf(q)) : HitsOf(q)[i].name = SpeciesX
    /\ x # None
    /\ \A a \in Ancestors(tre, x) :
          tre.name[a] \in DOMAIN tre.assignment_min
              => Weakest(q) >= tre.assignment_min[tre.name[a]]

\* C7 (as stated): in the round trip, a taxon registered at domain,
\* superkingdom or kingdom depth on the lineage of speciesX is rendered in the
\* k slot.
C7_KingdomSlot ==
    \A i \in 1..Len(OtuOrder) :
        LET q == OtuOrder[i]
            x == Get(tre.node_names, SpeciesX)
        IN  (OnlySpeciesX(q, x) /\ RenderAttempted(i)) =>
                \A a \in Ancestors(tre, x) :
                    (Depth(tre, a) \in {2, 3, 4} /\ tre.name[a] \in DOMAIN tre.assignment_min)
                        => Underscored(tre.name[a], rendered[q][1][2])

\* C7 (amended): the query is classified to speciesX; the k slot holds the
\* name of the ancestor at domain depth (2) only, the nodes at superkingdom
\* (3) and kingdom (4) depth are rendered in no slot; with Bacteria at domain
\* depth and Proteobacteria at phylum depth the record reads k = Bacteria,
\* p = Proteobacteria, ..., s = sp_X.
C7_RoundTrip ==
    \A i \in 1..Len(OtuOrder) :
        LET q == OtuOrder[i]
            x == Get(tre.node_names, SpeciesX)
        IN  (OnlySpeciesX(q, x) /\ Processed(q)) =>
                /\ otus[q].classification = x
                /\ RenderAttempted(i) =>
                      /\ RendersLineage(tre, x, rendered[q])
                      /\ rendered[q][7] = <<"s", <<"s", "p", "_", "X">>>>
                      /\ \A a \in Ancestors(tre, x) :
                            /\ (Depth(tre, a) = 2 /\ tre.name[a] = Bacteria)
                                  => rendered[q][1] = <<"k", Bacteria>>
                            /\ (Depth(tre, a) = 5 /\ tre.name[a] = Proteobacteria)
                                  => rendered[q][2] = <<"p", Proteobacteria>>
                            /\ Depth(tre, a) \in {3, 4}
                                  => \A j \in 1..Len(SlotKeys) :
                                        ~Underscored(tre.name[a], rendered[q][j][2])

\* the round trip on the tree with Bacteria at domain depth, rendered
C7_Witness ==
    /\ pc = "done"
    /\ OnlySpeciesX("otu2", Get(tre.node_names, SpeciesX))
    /\ rendered["otu2"][1] = <<"k", Bacteria>>
    /\ rendered["otu2"][2] = <<"p", Proteobacteria>>
    /\ rendered["otu2"][6] = <<"g", <<"G", "e", "n", "u", "s", "_", "G">>>>
    /\ rendered["otu2"][7] = <<"s", <<"s", "p", "_", "X">>>>

\* the parent map has an entry for every node, the node's parent in the topology
ParentsComplete(t) ==
    /\ DOMAIN t.parents = DOMAIN t.clades
    /\ \A n \in DOMAIN t.clades : t.parents[n] = ParentOf(t, n)

\* C10: at every step of parse_blasthits and of the rendering the parent map
\* of the constructed tree is complete and correct and the step leaves the
\* whole tree as it is (parent map, name index, thresholds, names, child
\* lists); the retained hits do not change once the file is read; an OTU
\* changes only while its query is classified, and only if it has a retained
\* hit.
C10_ReadOnlyTree ==
    [][/\ ParentsComplete(tre)
       /\ tre' = tre
       /\ (pc # "read" => hsps' = hsps)
       /\ \A q \in OtuNames :
             otus'[q] # otus[q] => (pc = "classify" /\ Retained(q) /\ HitsOf(q) # <<>>)]_vars

\* a finished run that classified a query to a node of the tree
C10_Witness ==
    /\ pc = "done"
    /\ ParentsComplete(tre)
    /\ \E q \in OtuNames : Retained(q) /\ otus[q].classification \in DOMAIN tre.clades \ {tre.no_hits}

----------------------------------------------------------------------------
(* Tree.__init__ and add_node (SpecBuild) *)

\* the nodes whose label in the tree file is id
NodeOfRawId(t, id) ==
    {n \in DOMAIN t.clades : (IF n = t.no_hits THEN NoHitsName ELSE RawId(n)) = id}

\* a run of non-digits followed by a run of digits, of one of the four shapes
HasAccessionShape(name) ==
    \E sh \in {<<2, 6>>, <<1, 5>>, <<4, 9>>, <<4, 8>>} :
        /\ Len(name) = sh[1] + sh[2]
        /\ \A i \in 1..Len(name) : IsDigit(name[i]) <=> i > sh[1]

\* the dict d with d[k] = v
With(d, k, v) == [x \in (DOMAIN d) \cup {k} |-> IF x = k THEN v ELSE d[x]]

\* C8: a mapping row whose node_id is no raw id of the tree changes nothing;
\* otherwise the name is indexed at that node, and the node is renamed and
\* the threshold recorded if and only if the cutoff is >= 0 and the name has
\* no accession shape; the row changes nothing else of the tree.
C8_MapRow ==
    [][(pc = "map" /\ nrows' = nrows + 1) =>
          LET at == NodeOfRawId(tre, row'.node_id)
          IN  IF at = {} THEN tre' = tre
              ELSE \E n \in at :
                      /\ tre'.node_names = With(tre.node_names, row'.name, n)
                      /\ IF row'.similarity_cutoff >= 0 /\ ~HasAccessionShape(row'.name)
                         THEN /\ tre'.name = [tre.name EXCEPT ![n] = row'.name]
                              /\ tre'.assignment_min =
                                    With(tre.assignment_min, row'.name, row'.similarity_cutoff)
                         ELSE /\ tre'.name = tre.name
                              /\ tre'.assignment_min = tre.assignment_min
                      /\ tre'.clades = tre.clades
                      /\ tre'.parents = tre.parents
                      /\ tre'.node_ids = tre.node_ids
                      /\ tre'.root = tre.root
                      /\ tre'.no_hits = tre.no_hits]_vars

\* an accession row with a cutoff >= 0 on a node of the tree: indexed, the
\* node not renamed, no threshold
C8_Witness ==
    /\ pc = "map"
    /\ nrows > 0
    /\ row = Row(RawId(1), Acc1, 97)
    /\ Acc1 \in DOMAIN tre.node_names
    /\ tre.node_names[Acc1] = 1
    /\ tre.name[1] # Acc1
    /\ Acc1 \notin DOMAIN tre.assignment_min

\* C9 (as stated): a registered name keeps its node and its threshold through
\* every later mapping row and add_node call, and no two nodes carry one name.
C9_FirstRegistrationWins ==
    [][/\ \A x \in DOMAIN tre.node_names :
             /\ x \in DOMAIN tre'.node_names
             /\ tre'.node_names[x] = tre.node_names[x]
             /\ x \in DOMAIN tre.assignment_min =>
                   /\ x \in DOMAIN tre'.assignment_min
                   /\ tre'.assignment_min[x] = tre.assignment_min[x]
       /\ \A a, b \in DOMAIN tre'.name : tre'.name[a] = tre'.name[b] => a = b]_vars

====
